---- MODULE Spec2Model ----
(***************************************************************************)
(* Model of the live-mapper frontend (src/frontend/src/App.tsx): the App   *)
(* component's state, its fetchVehicleData coroutine with the abort timer, *)
(* the map 'load' handler, the 15 s poll interval, the marker effect keyed *)
(* on vehicleData, and the effect cleanups run at unmount.                 *)
(*                                                                         *)
(* Time is discrete.  One clock unit is the abort delay (Quantum), so the  *)
(* abort timer is due one unit after a fetch is issued and the interval    *)
(* every three units.  Everything that happens at clock value t stands for *)
(* the events of the real interval (t-1, t], in any order; a timer that is *)
(* due fires before the clock moves on.                                    *)
(***************************************************************************)
EXTENDS Integers, Sequences, FiniteSets

VARIABLES
    now,            \* clock, in units of Quantum milliseconds
    nextTick,       \* clock value at which the setInterval callback is next due
    mounted,        \* the App component is mounted
    mapLoaded,      \* the map has emitted 'load'
    mapRemoved,     \* map.current.remove() has run
    intervalActive, \* the setInterval timer exists (not cleared)
    vehicleData,    \* useState<VehicleData | null>
    loading,        \* useState(true)
    error,          \* useState<string | null>
    lastPosition,   \* useRef<{lng, lat} | null>
    marker,         \* useRef<maplibregl.Marker | null>: its position, colour, popup
    attempts,       \* the fetchVehicleData calls in flight and their abort timers;
                    \* pc "done": a call that returned with its timer left armed
    lastSettled,    \* the fetchVehicleData call that returned last, and what it returned
    effectPending,  \* a commit changed vehicleData and its effect has not run yet
    mapCalls,       \* the map / marker library calls made by the latest effect run
    flyToCount,     \* number of map.flyTo calls so far
    markersConstructed, \* number of `new maplibregl.Marker` so far
    timerIssued,    \* number of fetchVehicleData calls made by the interval callback
    loadIssued      \* number of fetchVehicleData calls made by the 'load' handler

vars == <<now, nextTick, mounted, mapLoaded, mapRemoved, intervalActive,
          vehicleData, loading, error, lastPosition, marker, attempts,
          lastSettled, effectPending, mapCalls, flyToCount, markersConstructed,
          timerIssued, loadIssued>>

viewState == <<vehicleData, loading, error>>
mapState == <<lastPosition, marker, mapCalls, flyToCount, markersConstructed>>

---------------------------------------------------------------------------
\* Bounds and program constants

MaxTime == 7            \* the clock stops here (two interval ticks fit)

TimeoutMs == 5000       \* setTimeout(() => controller.abort(), 5000)
IntervalMs == 15000     \* setInterval(..., 15000)
Quantum == TimeoutMs    \* milliseconds per clock unit
Timeout == TimeoutMs \div Quantum
Interval == IntervalMs \div Quantum

\* null: of an object (a record of the model), and of the error string
Null == <<>>
NoError == "null"

Longitudes == {18, 19}
Latitudes == {-34, -33}
Speeds == {0, 60}
Descriptions == {"Home", "Depot"}

\* interface VehicleData (the fields the component reads)
VehicleData ==
    [data : [speed : Speeds, ignition : BOOLEAN,
             location : [longitude : Longitudes, latitude : Latitudes,
                         position_description : Descriptions]]]

\* The strings the component sets itself
TimeoutMessage == "Request timeout - API is slow"
HttpMessage == "Failed to fetch vehicle data"
UnknownMessage == "Unknown error"

\* What the platform throws.  The message texts are the browser's own and
\* differ between engines, so each is a choice among the engines' texts.
AbortErrors ==
    {[isError |-> TRUE, name |-> "AbortError", message |-> m] :
        m \in {"The user aborted a request.", "signal is aborted without reason"}}
NetworkErrors ==
    {[isError |-> TRUE, name |-> "TypeError", message |-> m] :
        m \in {"Failed to fetch", "Load failed"}}
ParseErrors ==
    {[isError |-> TRUE, name |-> "SyntaxError", message |-> m] :
        m \in {"Unexpected token < in JSON at position 0"}}
HttpError == [isError |-> TRUE, name |-> "Error", message |-> HttpMessage]

---------------------------------------------------------------------------
\* fetchVehicleData, the part after the awaits

\* a catch block without the AbortError test
CatchMessage_NoAbortTest(err) ==
    IF err.isError THEN err.message ELSE UnknownMessage

\* a catch block that reduces every non-abort error to one string
CatchMessage_Generic(err) ==
    IF err.isError /\ err.name = "AbortError"
    THEN TimeoutMessage
    ELSE HttpMessage

\* the catch block: the message handed to setError
CatchMessage(err) ==
    IF err.isError /\ err.name = "AbortError"
    THEN TimeoutMessage
    ELSE IF err.isError THEN err.message ELSE UnknownMessage

\* a catch block that also calls setVehicleData(null)
CatchResult_Blank(err, vd, er) ==
    [vehicleData |-> Null,
     error |-> IF err.isError /\ err.name = "AbortError"
               THEN TimeoutMessage
               ELSE IF err.isError THEN err.message ELSE UnknownMessage]

\* the state the catch block leaves: setError only
CatchResult(err, vd, er) ==
    [vehicleData |-> vd, error |-> CatchMessage(err)]

\* a success path that merges: the location of the previous snapshot is kept
SuccessResult_Merge(data, vd, er) ==
    [vehicleData |-> IF vd = Null THEN data
                     ELSE [data EXCEPT !.data.location = vd.data.location],
     error |-> NoError]

\* a success path that leaves the error as it is
SuccessResult_KeepError(data, vd, er) ==
    [vehicleData |-> data, error |-> er]

\* the state the success path leaves: setVehicleData(data); setError(null)
SuccessResult(data, vd, er) ==
    [vehicleData |-> data, error |-> NoError]

NextId == timerIssued + loadIssued + 1

\* the call of fetchVehicleData up to its first await: a new AbortController,
\* the abort timer armed, the request sent
IssueFetch ==
    attempts' = attempts \cup
        {[id |-> NextId, pc |-> "fetch", issued |-> now, armed |-> TRUE]}

\* a return path that drops the result of a call sent before the call that
\* returned last (a sequence-number guard)
Settle_SequenceGuard(a, rest, outcome, res, ret) ==
    /\ attempts' = rest
    /\ lastSettled' = [id |-> a.id, outcome |-> outcome, ret |-> ret]
    /\ IF mounted /\ (lastSettled = Null \/ a.id > lastSettled.id)
       THEN /\ vehicleData' = res.vehicleData
            /\ error' = res.error
            /\ effectPending' = (outcome = "ok")
       ELSE UNCHANGED <<vehicleData, error, effectPending>>
    /\ UNCHANGED <<now, nextTick, mounted, mapLoaded, mapRemoved, intervalActive,
                   loading, timerIssued, loadIssued>>
    /\ UNCHANGED mapState

\* A setState of a mounted component takes effect; of an unmounted one it
\* is dropped.
Settle(a, rest, outcome, res, ret) ==
    /\ attempts' = rest
    /\ lastSettled' = [id |-> a.id, outcome |-> outcome, ret |-> ret]
    /\ IF mounted
       THEN /\ vehicleData' = res.vehicleData
            /\ error' = res.error
            /\ effectPending' = (outcome = "ok")
       ELSE UNCHANGED <<vehicleData, error, effectPending>>
    /\ UNCHANGED <<now, nextTick, mounted, mapLoaded, mapRemoved, intervalActive,
                   loading, timerIssued, loadIssued>>
    /\ UNCHANGED mapState

---------------------------------------------------------------------------
\* The network and the abort timer, seen from one fetchVehicleData call

\* `await fetch` resolves with an ok response and the abort timer stays armed
ResponseOk_NoClear(a) ==
    /\ a.pc = "fetch"
    /\ ~effectPending
    /\ attempts' = (attempts \ {a}) \cup {[a EXCEPT !.pc = "json"]}
    /\ UNCHANGED <<now, nextTick, mounted, mapLoaded, mapRemoved, intervalActive,
                   lastSettled, effectPending, timerIssued, loadIssued>>
    /\ UNCHANGED viewState
    /\ UNCHANGED mapState

\* `await fetch` resolves with an ok response: clearTimeout, then the call
\* waits for response.json()
ResponseOk(a) ==
    /\ a.pc = "fetch"
    /\ ~effectPending
    /\ attempts' = (attempts \ {a}) \cup {[a EXCEPT !.pc = "json", !.armed = FALSE]}
    /\ UNCHANGED <<now, nextTick, mounted, mapLoaded, mapRemoved, intervalActive,
                   lastSettled, effectPending, timerIssued, loadIssued>>
    /\ UNCHANGED viewState
    /\ UNCHANGED mapState

\* `await fetch` resolves with a non-ok response: clearTimeout, then
\* throw new Error('Failed to fetch vehicle data')
ResponseNotOk(a) ==
    /\ a.pc = "fetch"
    /\ ~effectPending
    /\ Settle(a, attempts \ {a}, "http",
              CatchResult(HttpError, vehicleData, error), Null)

\* `await fetch` rejects for a network reason: clearTimeout is skipped, so
\* the abort timer of this call stays armed after the call has returned
FetchRejected(a) ==
    /\ a.pc = "fetch"
    /\ ~effectPending
    /\ \E err \in NetworkErrors :
          Settle(a, (attempts \ {a}) \cup {[a EXCEPT !.pc = "done"]}, "network",
                 CatchResult(err, vehicleData, error), Null)

\* an abort timer whose firing reaches the catch block of a returned call too
AbortTimer_IgnoresReturn(a) ==
    /\ a.armed
    /\ now = a.issued + Timeout
    /\ ~effectPending
    /\ a.pc \in {"fetch", "done"}
    /\ \E err \in AbortErrors :
          Settle(a, attempts \ {a}, "timeout",
                 CatchResult(err, vehicleData, error), Null)

\* the abort timer fires: controller.abort().  A fetch still awaited
\* rejects with an AbortError; a call that has returned is not affected.
AbortTimer(a) ==
    /\ a.armed
    /\ now = a.issued + Timeout
    /\ ~effectPending
    /\ \/ /\ a.pc = "fetch"
          /\ \E err \in AbortErrors :
                Settle(a, attempts \ {a}, "timeout",
                       CatchResult(err, vehicleData, error), Null)
       \/ /\ a.pc = "done"
          /\ attempts' = (attempts \ {a}) \cup {[a EXCEPT !.armed = FALSE]}
          /\ UNCHANGED <<now, nextTick, mounted, mapLoaded, mapRemoved,
                         intervalActive, lastSettled, effectPending,
                         timerIssued, loadIssued>>
          /\ UNCHANGED viewState
          /\ UNCHANGED mapState

\* `await response.json()` resolves with the parsed body
JsonOk(a) ==
    /\ a.pc = "json"
    /\ ~effectPending
    /\ \E data \in VehicleData :
          Settle(a, attempts \ {a}, "ok",
                 SuccessResult(data, vehicleData, error), data)

\* `await response.json()` rejects: the body is not JSON, or the connection
\* broke while the body was read
JsonRejected(a) ==
    /\ a.pc = "json"
    /\ ~effectPending
    /\ \/ \E err \in ParseErrors :
             Settle(a, attempts \ {a}, "parse",
                    CatchResult(err, vehicleData, error), Null)
       \/ \E err \in NetworkErrors :
             Settle(a, attempts \ {a}, "network",
                    CatchResult(err, vehicleData, error), Null)

---------------------------------------------------------------------------
\* The map, the interval and the component's lifetime

\* map.current.on('load', ...): setLoading(false); fetchVehicleData()
MapLoad ==
    /\ mounted /\ ~mapRemoved /\ ~mapLoaded
    /\ ~effectPending
    /\ mapLoaded' = TRUE
    /\ loading' = FALSE
    /\ IssueFetch
    /\ loadIssued' = loadIssued + 1
    /\ UNCHANGED <<now, nextTick, mounted, mapRemoved, intervalActive,
                   vehicleData, error, lastSettled, effectPending, timerIssued>>
    /\ UNCHANGED mapState

\* an interval callback that pauses while an error is shown
TimerCallback_PauseOnError ==
    IF error = NoError
    THEN /\ attempts' = attempts \cup
                {[id |-> NextId, pc |-> "fetch", issued |-> now, armed |-> TRUE]}
         /\ timerIssued' = timerIssued + 1
    ELSE UNCHANGED <<attempts, timerIssued>>

\* the body of the setInterval callback: fetchVehicleData()
TimerCallback ==
    /\ IssueFetch
    /\ timerIssued' = timerIssued + 1

\* the interval timer is due
Tick ==
    /\ intervalActive
    /\ now = nextTick
    /\ ~effectPending
    /\ nextTick' = nextTick + Interval
    /\ TimerCallback
    /\ UNCHANGED <<now, mounted, mapLoaded, mapRemoved, intervalActive,
                   lastSettled, effectPending, loadIssued>>
    /\ UNCHANGED viewState
    /\ UNCHANGED mapState

\* an unmount whose interval effect returns no cleanup
Unmount_KeepInterval ==
    /\ mounted
    /\ ~effectPending
    /\ mounted' = FALSE
    /\ mapRemoved' = TRUE
    /\ UNCHANGED <<now, nextTick, mapLoaded, intervalActive, attempts,
                   lastSettled, effectPending, timerIssued, loadIssued>>
    /\ UNCHANGED viewState
    /\ UNCHANGED mapState

\* unmount: the cleanups of the two mount effects, map.current?.remove()
\* and clearInterval(interval).  No fetch in flight is aborted.
Unmount ==
    /\ mounted
    /\ ~effectPending
    /\ mounted' = FALSE
    /\ mapRemoved' = TRUE
    /\ intervalActive' = FALSE
    /\ UNCHANGED <<now, nextTick, mapLoaded, attempts, lastSettled,
                   effectPending, timerIssued, loadIssued>>
    /\ UNCHANGED viewState
    /\ UNCHANGED mapState

\* a timer that is due at the current clock value
TimerDue ==
    \/ intervalActive /\ nextTick <= now
    \/ \E a \in attempts : a.armed /\ a.issued + Timeout <= now

Advance ==
    /\ now < MaxTime
    /\ ~TimerDue
    /\ ~effectPending
    /\ now' = now + 1
    /\ UNCHANGED <<nextTick, mounted, mapLoaded, mapRemoved, intervalActive,
                   attempts, lastSettled, effectPending, timerIssued, loadIssued>>
    /\ UNCHANGED viewState
    /\ UNCHANGED mapState

---------------------------------------------------------------------------
\* The marker effect, useEffect(..., [vehicleData])

\* a comparison that forgets the latitude
positionChanged_LngOnly(lp, longitude, latitude) ==
    \/ lp = Null
    \/ lp.lng # longitude

\* a comparison that is always true
positionChanged_Always(lp, longitude, latitude) == TRUE

\* const positionChanged = !lastPosition.current || lng !== ... || lat !== ...
positionChanged(lp, longitude, latitude) ==
    \/ lp = Null
    \/ lp.lng # longitude
    \/ lp.lat # latitude

\* el.innerHTML: the background colour of the marker element
MarkerColor(ignition) == IF ignition THEN "#10B981" ELSE "#EF4444"

\* the popup's HTML: the three values and the class it interpolates
PopupHTML(speed, ignition, position_description) ==
    [speed |-> speed,
     class |-> IF ignition THEN "text-green-600" ELSE "text-red-600",
     ignition |-> IF ignition THEN "On" ELSE "Off",
     location |-> position_description]

Call(op, lngLat) == [op |-> op, lngLat |-> lngLat]

\* an update branch that flies to the marker whenever it moves
UpdateMarker_FlyTo(vd, lp, mk) ==
    LET longitude == vd.data.location.longitude
        latitude == vd.data.location.latitude
    IN  IF lp = Null \/ lp.lng # longitude \/ lp.lat # latitude
        THEN [marker |-> [mk EXCEPT !.lngLat = <<longitude, latitude>>],
              lastPosition |-> [lng |-> longitude, lat |-> latitude],
              calls |-> <<Call("setLngLat", <<longitude, latitude>>),
                          Call("flyTo", <<longitude, latitude>>)>>]
        ELSE [marker |-> mk, lastPosition |-> lp, calls |-> <<>>]

\* an update branch that also refreshes the colour and the popup
UpdateMarker_Refresh(vd, lp, mk) ==
    LET longitude == vd.data.location.longitude
        latitude == vd.data.location.latitude
        fresh == [mk EXCEPT !.color = MarkerColor(vd.data.ignition),
                            !.popup = PopupHTML(vd.data.speed, vd.data.ignition,
                                                vd.data.location.position_description)]
    IN  IF lp = Null \/ lp.lng # longitude \/ lp.lat # latitude
        THEN [marker |-> [fresh EXCEPT !.lngLat = <<longitude, latitude>>],
              lastPosition |-> [lng |-> longitude, lat |-> latitude],
              calls |-> <<Call("setLngLat", <<longitude, latitude>>)>>]
        ELSE [marker |-> fresh, lastPosition |-> lp, calls |-> <<>>]

\* an update branch that moves the marker and does not record the position
UpdateMarker_NoRecord(vd, lp, mk) ==
    LET longitude == vd.data.location.longitude
        latitude == vd.data.location.latitude
    IN  IF lp = Null \/ lp.lng # longitude \/ lp.lat # latitude
        THEN [marker |-> [mk EXCEPT !.lngLat = <<longitude, latitude>>],
              lastPosition |-> lp,
              calls |-> <<Call("setLngLat", <<longitude, latitude>>)>>]
        ELSE [marker |-> mk, lastPosition |-> lp, calls |-> <<>>]

\* the branch taken when marker.current is set
UpdateMarker(vd, lp, mk) ==
    LET longitude == vd.data.location.longitude
        latitude == vd.data.location.latitude
    IN  IF positionChanged(lp, longitude, latitude)
        THEN [marker |-> [mk EXCEPT !.lngLat = <<longitude, latitude>>],
              lastPosition |-> [lng |-> longitude, lat |-> latitude],
              calls |-> <<Call("setLngLat", <<longitude, latitude>>)>>]
        ELSE [marker |-> mk, lastPosition |-> lp, calls |-> <<>>]

\* the branch taken when marker.current is null
CreateMarker(vd, lp, mk) ==
    LET longitude == vd.data.location.longitude
        latitude == vd.data.location.latitude
    IN  [marker |-> [lngLat |-> <<longitude, latitude>>,
                     color |-> MarkerColor(vd.data.ignition),
                     popup |-> PopupHTML(vd.data.speed, vd.data.ignition,
                                         vd.data.location.position_description)],
         lastPosition |-> [lng |-> longitude, lat |-> latitude],
         calls |-> <<Call("new Marker", <<longitude, latitude>>),
                     Call("setLngLat", <<longitude, latitude>>),
                     Call("setPopup", <<longitude, latitude>>),
                     Call("addTo", <<longitude, latitude>>),
                     Call("flyTo", <<longitude, latitude>>)>>]

\* an effect body that constructs a marker on every run
PresentMarker_AlwaysCreate(vd, lp, mk) ==
    LET longitude == vd.data.location.longitude
        latitude == vd.data.location.latitude
    IN  [marker |-> [lngLat |-> <<longitude, latitude>>,
                     color |-> MarkerColor(vd.data.ignition),
                     popup |-> PopupHTML(vd.data.speed, vd.data.ignition,
                                         vd.data.location.position_description)],
         lastPosition |-> [lng |-> longitude, lat |-> latitude],
         calls |-> <<Call("new Marker", <<longitude, latitude>>),
                     Call("setLngLat", <<longitude, latitude>>),
                     Call("setPopup", <<longitude, latitude>>),
                     Call("addTo", <<longitude, latitude>>),
                     Call("flyTo", <<longitude, latitude>>)>>]

\* the body of the effect after its guard
PresentMarker(vd, lp, mk) ==
    IF mk # Null THEN UpdateMarker(vd, lp, mk) ELSE CreateMarker(vd, lp, mk)

CountOp(calls, op) == Cardinality({i \in 1..Len(calls) : calls[i].op = op})

\* The effect runs after the commit that changed vehicleData, before the
\* next commit.  map.current is set from the mount effect on.
MarkerEffect ==
    /\ effectPending
    /\ effectPending' = FALSE
    /\ IF vehicleData = Null
       THEN UNCHANGED mapState
       ELSE LET r == PresentMarker(vehicleData, lastPosition, marker)
            IN  /\ marker' = r.marker
                /\ lastPosition' = r.lastPosition
                /\ mapCalls' = r.calls
                /\ flyToCount' = flyToCount + CountOp(r.calls, "flyTo")
                /\ markersConstructed' =
                       markersConstructed + CountOp(r.calls, "new Marker")
    /\ UNCHANGED <<now, nextTick, mounted, mapLoaded, mapRemoved, intervalActive,
                   attempts, lastSettled, timerIssued, loadIssued>>
    /\ UNCHANGED viewState

---------------------------------------------------------------------------
\* The component after its first render and its mount effects: the map is
\* constructed and not loaded, the interval is set, nothing is fetched yet.
Init ==
    /\ now = 0
    /\ nextTick = Interval
    /\ mounted = TRUE
    /\ mapLoaded = FALSE
    /\ mapRemoved = FALSE
    /\ intervalActive = TRUE
    /\ vehicleData = Null
    /\ loading = TRUE
    /\ error = NoError
    /\ lastPosition = Null
    /\ marker = Null
    /\ attempts = {}
    /\ lastSettled = Null
    /\ effectPending = FALSE
    /\ mapCalls = <<>>
    /\ flyToCount = 0
    /\ markersConstructed = 0
    /\ timerIssued = 0
    /\ loadIssued = 0

Next ==
    \/ MapLoad
    \/ Tick
    \/ \E a \in attempts : ResponseOk(a)
    \/ \E a \in attempts : ResponseNotOk(a)
    \/ \E a \in attempts : FetchRejected(a)
    \/ \E a \in attempts : AbortTimer(a)
    \/ \E a \in attempts : JsonOk(a)
    \/ \E a \in attempts : JsonRejected(a)
    \/ MarkerEffect
    \/ Unmount
    \/ Advance

Spec == Init /\ [][Next]_vars

---------------------------------------------------------------------------
\* What the render shows

LoadingVisible == loading
ErrorVisible == error # NoError /\ error # ""
PanelVisible == vehicleData # Null /\ ~loading

---------------------------------------------------------------------------
\* Steps named by what they do

\* a fetchVehicleData call returns in this step
Settles == lastSettled' # lastSettled
SettlesOk == Settles /\ lastSettled'.outcome = "ok"
SettlesFailed == Settles /\ lastSettled'.outcome # "ok"
\* the marker effect runs in this step
EffectRuns == effectPending /\ ~effectPending'
\* the calls in flight that have not returned
Pending(as) == {a \in as : a.pc # "done"}
PendingIds(as) == {a.id : a \in Pending(as)}

---------------------------------------------------------------------------
\* C1: when a fetch attempt fails (timeout, non-2xx, network rejection,
\* unparseable body) in a mounted view, the snapshot held after it settles
\* is the snapshot held before, and the error message is set and non-empty.
C1_FailedFetchKeepsSnapshot ==
    [][(mounted /\ SettlesFailed) =>
          /\ vehicleData' = vehicleData
          /\ error' # NoError
          /\ error' # ""]_vars

\* a failed poll has settled while a snapshot is held
C1_Witness ==
    /\ mounted
    /\ lastSettled # Null /\ lastSettled.outcome # "ok"
    /\ vehicleData # Null
    /\ error # NoError

\* C2: when a fetch attempt succeeds in a mounted view, the snapshot held
\* after it settles is the received status, every field of it, and the
\* error is null, whatever the snapshot and the error were before.
C2_SuccessReplacesSnapshot ==
    [][(mounted /\ SettlesOk) =>
          /\ vehicleData' = lastSettled'.ret
          /\ error' = NoError]_vars

\* a second success has replaced the snapshot the marker was built from
C2_Witness ==
    /\ mounted
    /\ lastSettled # Null /\ lastSettled.outcome = "ok"
    /\ vehicleData = lastSettled.ret
    /\ error = NoError
    /\ marker # Null
    /\ marker.color # MarkerColor(vehicleData.data.ignition)
    /\ marker.lngLat[1] # vehicleData.data.location.longitude

\* C3: a fetch still awaiting its response at its abort deadline is aborted
\* there (none waits past it), and in a mounted view a settling attempt sets
\* the timeout message exactly when it was aborted at its deadline; no
\* non-2xx, network or parse failure sets it.
C3_TimeoutMessageOnlyOnTimeout ==
    /\ [](\A a \in attempts : a.pc = "fetch" => now <= a.issued + Timeout)
    /\ [][Settles =>
            /\ (lastSettled'.outcome = "timeout") =>
                  \E a \in attempts :
                     /\ a.id = lastSettled'.id
                     /\ a.pc = "fetch"
                     /\ now = a.issued + Timeout
            /\ mounted =>
                  ((error' = TimeoutMessage) <=> (lastSettled'.outcome = "timeout"))
         ]_vars

C3_Witness ==
    /\ mounted
    /\ lastSettled # Null /\ lastSettled.outcome = "timeout"
    /\ error = TimeoutMessage

\* C4: map.flyTo is called at most once in the life of the view: by the
\* effect run that finds no marker, as its last call and to the coordinates
\* of the status presented; an effect run that finds a marker never calls it.
C4_FlyToOnce ==
    /\ [](flyToCount <= 1 /\ (flyToCount = 1 <=> marker # Null))
    /\ [][EffectRuns =>
            IF marker = Null
            THEN /\ flyToCount' = 1
                 /\ mapCalls'[Len(mapCalls')] =
                        Call("flyTo", <<vehicleData.data.location.longitude,
                                        vehicleData.data.location.latitude>>)
            ELSE /\ flyToCount' = flyToCount
                 /\ CountOp(mapCalls', "flyTo") = 0]_vars

\* the marker has been moved by a later status, after the one fly-to
C4_Witness ==
    /\ flyToCount = 1
    /\ marker # Null
    /\ mapCalls = <<Call("setLngLat", marker.lngLat)>>

\* C5: an effect run that finds the marker and a snapshot whose longitude
\* and latitude both equal lastPosition makes no library call (setLngLat is
\* not invoked) and leaves lastPosition and the marker as they are.
C5_SamePositionNoOp ==
    [][(/\ EffectRuns
        /\ marker # Null
        /\ vehicleData.data.location.longitude = lastPosition.lng
        /\ vehicleData.data.location.latitude = lastPosition.lat) =>
          /\ mapCalls' = <<>>
          /\ lastPosition' = lastPosition
          /\ marker' = marker]_vars

\* the effect has run on a snapshot at the rendered position
C5_Witness ==
    /\ mounted
    /\ marker # Null
    /\ ~effectPending
    /\ mapCalls = <<>>
    /\ lastSettled.outcome = "ok"

\* C6: an effect run that finds the marker and a snapshot whose longitude
\* or latitude differs from lastPosition makes exactly one library call,
\* setLngLat to the new coordinates, which become the marker's position and
\* lastPosition; the popup and the colour stay as they are.
C6_MovedPositionOneUpdate ==
    [][(/\ EffectRuns
        /\ marker # Null
        /\ \/ vehicleData.data.location.longitude # lastPosition.lng
           \/ vehicleData.data.location.latitude # lastPosition.lat) =>
          LET lngLat == <<vehicleData.data.location.longitude,
                          vehicleData.data.location.latitude>>
          IN  /\ mapCalls' = <<Call("setLngLat", lngLat)>>
              /\ marker'.lngLat = lngLat
              /\ lastPosition' = [lng |-> lngLat[1], lat |-> lngLat[2]]
              /\ marker'.popup = marker.popup
              /\ marker'.color = marker.color]_vars

\* the marker has been moved by a status whose popup text would differ
C6_Witness ==
    /\ marker # Null
    /\ ~effectPending
    /\ Len(mapCalls) = 1
    /\ marker.lngLat = <<vehicleData.data.location.longitude,
                         vehicleData.data.location.latitude>>
    /\ marker.popup # PopupHTML(vehicleData.data.speed, vehicleData.data.ignition,
                                vehicleData.data.location.position_description)

\* C7: the interval callback issues no fetch before the map has emitted
\* 'load' and the load handler has issued the initial fetch.
C7_TimerFetchOnlyAfterLoad ==
    [][timerIssued' > timerIssued => (mapLoaded /\ loadIssued > 0)]_vars

\* C8: while the view is mounted the interval callback has issued one fetch
\* for each multiple of the interval that has passed, whatever the earlier
\* attempts did; each tick adds exactly one call in flight, and a settling
\* attempt adds none.
TicksPassed == IF nextTick <= now THEN (now \div Interval) - 1 ELSE now \div Interval

C8_EveryTickOneFetch ==
    /\ [](mounted => timerIssued = TicksPassed)
    /\ [][timerIssued' # timerIssued =>
            /\ timerIssued' = timerIssued + 1
            /\ \E a \in attempts' :
                  /\ a.pc = "fetch" /\ a.issued = now
                  /\ attempts' = attempts \cup {a}
                  /\ a \notin attempts]_vars
    /\ [][Settles => PendingIds(attempts') \subseteq PendingIds(attempts)]_vars

\* a second tick has issued its fetch though an attempt failed and another
\* is still in flight
C8_Witness ==
    /\ mounted
    /\ timerIssued = 2
    /\ error # NoError
    /\ Cardinality(Pending(attempts)) >= 2

\* C9: unmount clears the interval and removes the map and cancels no fetch
\* in flight; after it no fetch is issued, and an attempt that settles
\* changes neither the snapshot, the flags, the error, the marker nor the map.
C9_NothingAfterUnmount ==
    /\ [](~mounted => (~intervalActive /\ mapRemoved))
    /\ [][(mounted /\ ~mounted') => attempts' = attempts]_vars
    /\ [][~mounted =>
            /\ UNCHANGED <<timerIssued, loadIssued>>
            /\ PendingIds(attempts') \subseteq PendingIds(attempts)
            /\ UNCHANGED viewState
            /\ UNCHANGED mapState
            /\ UNCHANGED <<mapLoaded, mapRemoved, intervalActive, mounted>>]_vars

\* a fetch in flight at unmount has later returned a status the view never took
C9_Witness ==
    /\ ~mounted
    /\ lastSettled # Null /\ lastSettled.outcome = "ok"
    /\ lastSettled.ret # vehicleData

\* C10: while the loading flag is true no error banner and no status panel
\* is rendered.
C10_LoadingExclusive ==
    LoadingVisible => (~ErrorVisible /\ ~PanelVisible)

---------------------------------------------------------------------------
\* the strings the catch block can set for each way a call fails
MessagesOf(outcome) ==
    CASE outcome = "timeout" -> {CatchMessage(e) : e \in AbortErrors}
      [] outcome = "http" -> {CatchMessage(HttpError)}
      [] outcome = "network" -> {CatchMessage(e) : e \in NetworkErrors}
      [] outcome = "parse" -> {CatchMessage(e) : e \in ParseErrors}
      [] OTHER -> {}

NonTimeoutFailure(s) == s # Null /\ s.outcome \in {"http", "network", "parse"}

\* C11 as stated: all non-timeout failures set the same error string, so
\* when a non-timeout failure of one kind settles right after one of another
\* kind in a mounted view the error string stays what it was.
C11_OneGenericMessage ==
    [][(mounted /\ Settles /\ NonTimeoutFailure(lastSettled)
               /\ NonTimeoutFailure(lastSettled')
               /\ lastSettled'.outcome # lastSettled.outcome) =>
          error' = error]_vars

\* C11 amended: a non-timeout failure sets the message of the error that
\* was thrown: 'Failed to fetch vehicle data' for a non-2xx status, the
\* platform's own text for a network rejection or an unparseable body.  The
\* texts of the platform are none of them the string of the non-2xx case
\* nor the timeout message.
C11_MessageOfThrownError ==
    [][(mounted /\ Settles /\ NonTimeoutFailure(lastSettled')) =>
          /\ lastSettled'.outcome = "http" => error' = HttpMessage
          /\ lastSettled'.outcome = "network" =>
                /\ error' \in {e.message : e \in NetworkErrors}
                /\ error' # HttpMessage
          /\ lastSettled'.outcome = "parse" =>
                /\ error' \in {e.message : e \in ParseErrors}
                /\ error' # HttpMessage
          /\ error' # TimeoutMessage]_vars

\* a network rejection has set the platform's text while a snapshot is held
C11_Witness ==
    /\ mounted
    /\ NonTimeoutFailure(lastSettled)
    /\ lastSettled.outcome = "network"
    /\ error \in {e.message : e \in NetworkErrors}

\* C12 as stated: no call is still in flight past its 5 s deadline, the
\* read of the body included.
C12_SettlesWithinDeadline ==
    \A a \in Pending(attempts) : now <= a.issued + Timeout

\* C12 amended: a call still awaiting its response has its abort timer
\* armed and is not past its deadline; a call reading the body has had its
\* timer cleared, so nothing bounds how long it stays in flight.
C12_DeadlineCoversResponseOnly ==
    \A a \in Pending(attempts) :
        /\ a.pc = "fetch" => (a.armed /\ now <= a.issued + Timeout)
        /\ a.pc = "json" => ~a.armed

\* a call is reading the body two deadlines after it was issued
C12_Witness ==
    \E a \in attempts : a.pc = "json" /\ now >= a.issued + 2 * Timeout

---------------------------------------------------------------------------
\* the calls that have returned: issued and no longer in flight
ReturnedIds == {i \in 1..(NextId - 1) : i \notin PendingIds(attempts)}

\* call s returned when a call sent after it had returned already
SettledOutOfOrder(s) == \E j \in ReturnedIds : j > s.id /\ s.id \notin ReturnedIds

\* C13: nothing orders overlapping calls.  A call that returns after a call
\* sent later than it has returned is applied like any other: its status
\* becomes the snapshot and clears the error, or its failure sets the error.
C13_LastSettledWins ==
    [][(mounted /\ Settles /\ SettledOutOfOrder(lastSettled')) =>
          IF lastSettled'.outcome = "ok"
          THEN vehicleData' = lastSettled'.ret /\ error' = NoError
          ELSE vehicleData' = vehicleData
               /\ error' \in MessagesOf(lastSettled'.outcome)]_vars

\* the snapshot held is the status of a call sent before another call that
\* returned earlier, while two calls were in flight together
C13_Witness ==
    /\ mounted
    /\ lastSettled # Null /\ lastSettled.outcome = "ok"
    /\ vehicleData = lastSettled.ret
    /\ \E j \in ReturnedIds : j > lastSettled.id

---------------------------------------------------------------------------
\* the status panel's text for a snapshot: the ignition label and the speed
PanelOf(vd) ==
    [ignition |-> IF vd.data.ignition THEN "Engine Running" ELSE "Engine Off",
     speed |-> vd.data.speed]

\* what the status panel shows, when it is rendered
PanelText == IF PanelVisible THEN PanelOf(vehicleData) ELSE Null

\* C14: the marker's colour and popup are those of the status the marker
\* was created from, and no later effect run changes them; the status panel,
\* when rendered after a success, shows the status that call returned.
C14_ColourAndPopupFixedAtCreation ==
    /\ [][(EffectRuns /\ marker = Null) =>
            /\ marker'.color = MarkerColor(vehicleData.data.ignition)
            /\ marker'.popup =
                  PopupHTML(vehicleData.data.speed, vehicleData.data.ignition,
                            vehicleData.data.location.position_description)]_vars
    /\ [][marker # Null =>
            /\ marker' # Null
            /\ marker'.color = marker.color
            /\ marker'.popup = marker.popup]_vars
    /\ [](mounted /\ PanelVisible /\ lastSettled # Null /\ lastSettled.outcome = "ok"
            => PanelText = PanelOf(lastSettled.ret))

\* the panel reads "Engine Running" at a new speed and position while the
\* marker is still red with the popup of the first status
C14_Witness ==
    /\ mounted
    /\ marker # Null
    /\ ~effectPending
    /\ PanelVisible
    /\ PanelText.ignition = "Engine Running"
    /\ marker.color = MarkerColor(FALSE)
    /\ marker.popup.ignition = "Off"
    /\ marker.popup.speed # vehicleData.data.speed
    /\ marker.popup.location # vehicleData.data.location.position_description
    /\ marker.lngLat[2] = vehicleData.data.location.latitude
    /\ Len(mapCalls) = 1

\* C15: once marker.current is set it stays set, and the Marker
\* constructor runs at most once in the life of the view, whatever
\* successes, failures and ticks follow.
C15_MarkerOneWay ==
    /\ [](markersConstructed <= 1 /\ (markersConstructed = 1 <=> marker # Null))
    /\ [][marker # Null =>
            /\ marker' # Null
            /\ markersConstructed' = markersConstructed
            /\ (mapCalls' = mapCalls \/ CountOp(mapCalls', "new Marker") = 0)]_vars

\* the marker exists after two ticks and the success of the third call
C15_Witness ==
    /\ marker # Null
    /\ markersConstructed = 1
    /\ timerIssued = 2
    /\ lastSettled.outcome = "ok"
    /\ lastSettled.id = 3
    /\ ~effectPending

\* C16: no marker is placed before the map has emitted 'load'.
C16_MarkerOnlyAfterLoad ==
    marker # Null => mapLoaded

\* C17: when the marker exists and the effect has run on the snapshot held,
\* the marker's position, lastPosition and the snapshot's longitude and
\* latitude are equal; a failed call changes none of the three.
C17_PositionsAgree ==
    /\ []((marker # Null /\ ~effectPending) =>
            /\ marker.lngLat = <<lastPosition.lng, lastPosition.lat>>
            /\ marker.lngLat = <<vehicleData.data.location.longitude,
                                 vehicleData.data.location.latitude>>)
    /\ [][SettlesFailed =>
            UNCHANGED <<marker, lastPosition, vehicleData>>]_vars

\* the marker has been moved, and a failure has settled since
C17_Witness ==
    /\ mounted
    /\ marker # Null
    /\ ~effectPending
    /\ mapCalls = <<Call("setLngLat", <<lastPosition.lng, lastPosition.lat>>)>>
    /\ lastSettled.outcome \in {"timeout", "http", "network", "parse"}
    /\ error # NoError

---------------------------------------------------------------------------
\* C18: in a mounted view the error is null exactly when no call has
\* returned yet or the call that returned last succeeded; when the call that
\* returned last failed, the error is a message of that call's kind of
\* failure.
C18_ErrorReflectsLastSettled ==
    mounted =>
        /\ (error = NoError) <=>
              (lastSettled = Null \/ lastSettled.outcome = "ok")
        /\ (lastSettled # Null /\ lastSettled.outcome # "ok") =>
              error \in MessagesOf(lastSettled.outcome)

\* a body that could not be parsed has replaced the state a success left
C18_Witness ==
    /\ mounted
    /\ lastSettled # Null /\ lastSettled.outcome = "parse"
    /\ error \in {e.message : e \in ParseErrors}
    /\ vehicleData # Null

\* a returned call's abort timer fires, or is no longer there, in this step
StaleTimerFires == \E a \in attempts : a.pc = "done" /\ a.armed /\ a \notin attempts'

\* C19: a call whose response has arrived (it is reading the body) never
\* returns by the timeout path and never sets the timeout message; and the
\* firing of an abort timer left armed by a call that has returned changes
\* no state of the view, the marker or the map.
C19_NoTimeoutAfterResponse ==
    /\ [][(Settles /\ \E a \in attempts : a.id = lastSettled'.id /\ a.pc = "json") =>
            /\ lastSettled'.outcome # "timeout"
            /\ mounted => error' # TimeoutMessage]_vars
    /\ [][StaleTimerFires =>
            /\ UNCHANGED viewState
            /\ UNCHANGED mapState
            /\ UNCHANGED <<lastSettled, effectPending>>]_vars

\* the abort timer of a call rejected by the network has fired, and the
\* view still shows that call's network error
C19_Witness ==
    /\ mounted
    /\ \E a \in attempts :
          /\ a.pc = "done" /\ ~a.armed
          /\ now >= a.issued + Timeout
          /\ lastSettled.id = a.id
    /\ lastSettled.outcome = "network"
    /\ error \in {e.message : e \in NetworkErrors}

====
